---- MODULE Spec2Model ----
(***************************************************************************)
(* Model of decodeLZ77 (main.go): a single forward scan over a bitstream   *)
(* of '0'/'1' symbols, one flag bit per token, literal tokens of 8 bits    *)
(* and back-reference tokens of offsetBits + lengthBits bits, with a       *)
(* sliding search buffer of at most 2^offsetBits bytes.                    *)
(*                                                                         *)
(* Bits are the one-character strings "0" and "1" (and "x" for a symbol    *)
(* that is neither); bytes are their character codes.  Go's half-open      *)
(* slice s[lo:hi] is SubSeq(s, lo + 1, hi); Go's index s[k] is s[k + 1].   *)
(***************************************************************************)
EXTENDS Integers, Sequences, FiniteSets

VARIABLES
    bitStream,      \* the input (immutable)
    offsetBits,     \* width of the offset field
    lengthBits,     \* width of the length field
    output,         \* strings.Builder output
    searchBuffer,   \* sliding window
    position,       \* cursor into bitStream
    flag,           \* the flag read by the current iteration
    charCode,       \* literal path: parsed byte value
    offset,         \* back-reference path: parsed offset
    length,         \* back-reference path: parsed length
    startPos,       \* back-reference path: copy source start
    i,              \* back-reference path: copy loop counter
    pc,             \* control point of the call
    retOut,         \* returned string (meaningful when pc = "done")
    err,            \* returned error kind ("nil" when none)
    errPos,         \* position carried by the returned error
    tokPos,         \* history: cursor at the start of the current iteration
    tokOut,         \* history: output at the start of the current iteration
    tokBuf,         \* history: search buffer at the start of the current iteration
    tokKind         \* history: what the current iteration parsed

vars == <<bitStream, offsetBits, lengthBits, output, searchBuffer, position,
          flag, charCode, offset, length, startPos, i, pc, retOut, err, errPos,
          tokPos, tokOut, tokBuf, tokKind>>

-----------------------------------------------------------------------------
(* Bounds of the model *)

MaxOffsetBits == 1
MaxLengthBits == 2
MaxTokens == 2

(* Program constants *)

LiteralBits == 8
PrintableMin == 32
PrintableMax == 126

(* Byte values the generated literal tokens carry: both ends of the         *)
(* printable range, their outer neighbours, and 'A'.                        *)
LiteralCodes == {31, 32, 65, 126, 127}

ErrNil == "nil"
ErrUnexpectedEnd == "unexpected end of stream"
ErrIncompleteLiteral == "incomplete literal"
ErrIncompleteBackRef == "incomplete back-reference"

-----------------------------------------------------------------------------
(* Pure helpers *)

\* 1 << n
Shl1(n) == 2 ^ n

\* bitStream[lo:hi]
Slice(s, lo, hi) == SubSeq(s, lo + 1, hi)

\* The accumulation loops "if bit == '1' { v += 1 << (width - 1 - i) }".
RECURSIVE BitsValueFrom(_, _, _)
BitsValueFrom(bits, width, k) ==
    IF k >= Len(bits) THEN 0
    ELSE (IF bits[k + 1] = "1" THEN Shl1(width - 1 - k) ELSE 0)
         + BitsValueFrom(bits, width, k + 1)

\* Mutant: the shift is "width - i" instead of "width - 1 - i".
BitsValueShiftedByOne(bits, width) == BitsValueFrom(bits, width + 1, 0)

BitsValue(bits, width) == BitsValueFrom(bits, width, 0)

\* Mutant: both comparisons strict.
IsPrintableExclusive(code) == code > PrintableMin /\ code < PrintableMax

\* "charCode >= 32 && charCode <= 126"
IsPrintable(code) == code >= PrintableMin /\ code <= PrintableMax

\* generateBitStream for one character: bits 7 down to 0 of the code.
ByteBits(code) ==
    [k \in 1..LiteralBits |->
        IF (code \div Shl1(LiteralBits - k)) % 2 = 1 THEN "1" ELSE "0"]

\* Mutant: the scan loop also entered with the cursor at the end.
LoopConditionInclusive(pos, len) == pos <= len

\* The loop condition of the scan.
LoopCondition(pos, len) == pos < len

\* Mutant: the flag is read without "position++".
AfterFlagStuck(pos) == pos

\* "position++" after the flag read.
AfterFlag(pos) == pos + 1

\* Mutant: "position += lengthBits" forgotten.
AfterFieldsOffsetOnly(pos, ob, lb) == pos + ob

\* "position += offsetBits" then "position += lengthBits".
AfterFields(pos, ob, lb) == pos + ob + lb

\* Mutant: the error carries a byte position instead of the bit cursor.
ErrorPositionInBytes(pos) == pos \div 8

\* The position an error message carries.
ErrorPosition(pos) == pos

\* Mutant: the output is dropped when an error is returned.
ErrorOutputDiscarded(out) == <<>>

\* The string returned together with an error.
ErrorOutput(out) == out

\* Mutant: the literal path drops the newest byte instead of the oldest.
TrimLiteralDropsNewest(buf, ob) ==
    IF Len(buf) > Shl1(ob) THEN SubSeq(buf, 1, Len(buf) - 1) ELSE buf

\* Literal path: "if len(searchBuffer) > 1<<offsetBits { searchBuffer = searchBuffer[1:] }"
TrimLiteralWindow(buf, ob) ==
    IF Len(buf) > Shl1(ob) THEN Tail(buf) ELSE buf

\* Mutant: the back-reference path never trims.
TrimBackRefMissing(buf, ob) == buf

\* Back-reference path: keep the last 1<<offsetBits bytes.
TrimBackRefWindow(buf, ob) ==
    IF Len(buf) > Shl1(ob)
    THEN SubSeq(buf, Len(buf) - Shl1(ob) + 1, Len(buf))
    ELSE buf

\* "offset > len(searchBuffer) || length == 0"
InvalidReference(off, len, buf) == off > Len(buf) \/ len = 0

\* Mutant: the bound is the buffer length the token started with.
CopyOutOfBoundsFrozen(sp, k, buf) == sp + k >= Len(tokBuf)

\* "startPos+i >= len(searchBuffer)": the out-of-bounds break of the copy loop.
CopyOutOfBounds(sp, k, buf) == sp + k >= Len(buf)

-----------------------------------------------------------------------------
(* Inputs *)

RECURSIVE Flatten(_)
Flatten(ss) == IF ss = <<>> THEN <<>> ELSE Head(ss) \o Flatten(Tail(ss))

Zeros(n) == [k \in 1..n |-> "0"]

LiteralToken(code) == <<"0">> \o ByteBits(code)

Tokens(ob, lb) ==
    {LiteralToken(c) : c \in LiteralCodes}
    \cup {<<"1">> \o body : body \in [1..(ob + lb) -> {"0", "1"}]}
    \cup {<<"x">>}

\* A token cut short: its flag and fewer body bits than the body needs.
Tails(ob, lb) ==
    {<<>>}
    \cup {<<"0">> \o Zeros(n) : n \in 0..(LiteralBits - 1)}
    \cup {<<"1">> \o Zeros(n) : n \in 0..(ob + lb - 1)}

\* Bitstreams of at most MaxTokens tokens, the last of which may be cut short.
Inputs(ob, lb) ==
    {Flatten(ts) : ts \in [1..MaxTokens -> Tokens(ob, lb)]}
    \cup UNION {{Flatten(ts) \o t : ts \in [1..n -> Tokens(ob, lb)], t \in Tails(ob, lb)} :
                n \in 0..(MaxTokens - 1)}

-----------------------------------------------------------------------------
(* The call *)

Init ==
    /\ offsetBits \in 0..MaxOffsetBits
    /\ lengthBits \in 0..MaxLengthBits
    /\ bitStream \in Inputs(offsetBits, lengthBits)
    /\ output = <<>>
    /\ searchBuffer = <<>>
    /\ position = 0
    /\ flag = ""
    /\ charCode = 0
    /\ offset = 0
    /\ length = 0
    /\ startPos = 0
    /\ i = 0
    /\ pc = "loop"
    /\ retOut = <<>>
    /\ err = ErrNil
    /\ errPos = 0
    /\ tokPos = 0
    /\ tokOut = <<>>
    /\ tokBuf = <<>>
    /\ tokKind = "none"

\* "return output.String(), fmt.Errorf(... position)"
Fail(kind, pos) ==
    /\ pc' = "done"
    /\ retOut' = ErrorOutput(output)
    /\ err' = kind
    /\ errPos' = ErrorPosition(pos)

\* Loop head: the room-for-a-flag check, then the flag read and position++.
ReadFlag ==
    /\ pc = "loop"
    /\ LoopCondition(position, Len(bitStream))
    /\ tokPos' = position
    /\ tokOut' = output
    /\ tokBuf' = searchBuffer
    /\ tokKind' = "none"
    /\ charCode' = 0
    /\ offset' = 0
    /\ length' = 0
    /\ startPos' = 0
    /\ i' = 0
    /\ IF position + 1 > Len(bitStream)
       THEN /\ Fail(ErrUnexpectedEnd, position)
            /\ UNCHANGED <<position, flag>>
       ELSE /\ flag' = Slice(bitStream, position, position + 1)[1]
            /\ position' = AfterFlag(position)
            /\ pc' = "flag"
            /\ UNCHANGED <<retOut, err, errPos>>
    /\ UNCHANGED <<bitStream, offsetBits, lengthBits, output, searchBuffer>>

\* flag == "0": the 8 literal bits, the printable filter and the appends.
Literal ==
    /\ pc = "flag"
    /\ flag = "0"
    /\ IF position + LiteralBits > Len(bitStream)
       THEN /\ Fail(ErrIncompleteLiteral, position)
            /\ UNCHANGED <<position, charCode, output, searchBuffer, tokKind>>
       ELSE LET literalBits == Slice(bitStream, position, position + LiteralBits)
                code == BitsValue(literalBits, LiteralBits)
            IN  /\ position' = position + LiteralBits
                /\ charCode' = code
                /\ tokKind' = "literal"
                /\ IF IsPrintable(code)
                   THEN /\ output' = Append(output, code)
                        /\ searchBuffer' = Append(searchBuffer, code)
                        /\ pc' = "trimLiteral"
                   ELSE /\ UNCHANGED <<output, searchBuffer>>
                        /\ pc' = "loop"
                /\ UNCHANGED <<retOut, err, errPos>>
    /\ UNCHANGED <<bitStream, offsetBits, lengthBits, flag, offset, length,
                   startPos, i, tokPos, tokOut, tokBuf>>

\* Literal path: "Maintain sliding window size".
TrimLiteral ==
    /\ pc = "trimLiteral"
    /\ searchBuffer' = TrimLiteralWindow(searchBuffer, offsetBits)
    /\ pc' = "loop"
    /\ UNCHANGED <<bitStream, offsetBits, lengthBits, output, position, flag,
                   charCode, offset, length, startPos, i, retOut, err, errPos,
                   tokPos, tokOut, tokBuf, tokKind>>

\* flag == "1": the two fields, the validity check and startPos.
BackRef ==
    /\ pc = "flag"
    /\ flag = "1"
    /\ IF position + offsetBits + lengthBits > Len(bitStream)
       THEN /\ Fail(ErrIncompleteBackRef, position)
            /\ UNCHANGED <<position, offset, length, startPos, tokKind>>
       ELSE LET offsetBitStr == Slice(bitStream, position, position + offsetBits)
                lengthBitStr == Slice(bitStream, position + offsetBits,
                                      position + offsetBits + lengthBits)
                off == BitsValue(offsetBitStr, offsetBits)
                len == BitsValue(lengthBitStr, lengthBits)
            IN  /\ position' = AfterFields(position, offsetBits, lengthBits)
                /\ offset' = off
                /\ length' = len
                /\ tokKind' = "backref"
                /\ IF InvalidReference(off, len, searchBuffer)
                   THEN /\ pc' = "loop"
                        /\ UNCHANGED startPos
                   ELSE /\ startPos' = Len(searchBuffer) - off
                        /\ pc' = "copy"
                /\ UNCHANGED <<retOut, err, errPos>>
    /\ UNCHANGED <<bitStream, offsetBits, lengthBits, output, searchBuffer, flag,
                   charCode, i, tokPos, tokOut, tokBuf>>

\* One iteration of the copy loop that appends a byte.
CopyByte ==
    /\ pc = "copy"
    /\ i < length
    /\ ~CopyOutOfBounds(startPos, i, searchBuffer)
    /\ LET character == searchBuffer[startPos + i + 1]
       IN  /\ output' = Append(output, character)
           /\ searchBuffer' = Append(searchBuffer, character)
    /\ i' = i + 1
    /\ UNCHANGED <<bitStream, offsetBits, lengthBits, position, flag, charCode,
                   offset, length, startPos, pc, retOut, err, errPos,
                   tokPos, tokOut, tokBuf, tokKind>>

\* The copy loop ends: i reached length, or the out-of-bounds break.
CopyEnd ==
    /\ pc = "copy"
    /\ (i >= length \/ CopyOutOfBounds(startPos, i, searchBuffer))
    /\ pc' = "trimBackRef"
    /\ UNCHANGED <<bitStream, offsetBits, lengthBits, output, searchBuffer,
                   position, flag, charCode, offset, length, startPos, i,
                   retOut, err, errPos, tokPos, tokOut, tokBuf, tokKind>>

\* Back-reference path: "Maintain sliding window size".
TrimBackRef ==
    /\ pc = "trimBackRef"
    /\ searchBuffer' = TrimBackRefWindow(searchBuffer, offsetBits)
    /\ pc' = "loop"
    /\ UNCHANGED <<bitStream, offsetBits, lengthBits, output, position, flag,
                   charCode, offset, length, startPos, i, retOut, err, errPos,
                   tokPos, tokOut, tokBuf, tokKind>>

\* A flag that is neither "0" nor "1": neither branch runs.
OtherFlag ==
    /\ pc = "flag"
    /\ flag # "0"
    /\ flag # "1"
    /\ tokKind' = "other"
    /\ pc' = "loop"
    /\ UNCHANGED <<bitStream, offsetBits, lengthBits, output, searchBuffer,
                   position, flag, charCode, offset, length, startPos, i,
                   retOut, err, errPos, tokPos, tokOut, tokBuf>>

\* The loop condition fails: "return output.String(), nil".
Return ==
    /\ pc = "loop"
    /\ ~LoopCondition(position, Len(bitStream))
    /\ pc' = "done"
    /\ retOut' = output
    /\ err' = ErrNil
    /\ errPos' = 0
    /\ UNCHANGED <<bitStream, offsetBits, lengthBits, output, searchBuffer,
                   position, flag, charCode, offset, length, startPos, i,
                   tokPos, tokOut, tokBuf, tokKind>>

Next ==
    \/ ReadFlag
    \/ Literal
    \/ TrimLiteral
    \/ BackRef
    \/ CopyByte
    \/ CopyEnd
    \/ TrimBackRef
    \/ OtherFlag
    \/ Return

Spec == Init /\ [][Next]_vars

-----------------------------------------------------------------------------
(* decodeLZ77 as a function of its arguments, for statements that compare  *)
(* two calls.  It is built from the same helpers as the actions.           *)

\* The copy loop: <<output, searchBuffer>> after it.
RECURSIVE CopyLoop(_, _, _, _, _)
CopyLoop(out, buf, sp, len, k) ==
    IF k >= len \/ CopyOutOfBounds(sp, k, buf)
    THEN <<out, buf>>
    ELSE CopyLoop(Append(out, buf[sp + k + 1]), Append(buf, buf[sp + k + 1]),
                  sp, len, k + 1)

RECURSIVE DecodeFrom(_, _, _, _, _, _)
DecodeFrom(b, ob, lb, pos, out, buf) ==
    IF ~LoopCondition(pos, Len(b))
    THEN [out |-> out, err |-> ErrNil, pos |-> 0]
    ELSE IF pos + 1 > Len(b)
    THEN [out |-> ErrorOutput(out), err |-> ErrUnexpectedEnd, pos |-> ErrorPosition(pos)]
    ELSE
      LET f == Slice(b, pos, pos + 1)[1]
          p == AfterFlag(pos)
      IN
      IF f = "0" THEN
          IF p + LiteralBits > Len(b)
          THEN [out |-> ErrorOutput(out), err |-> ErrIncompleteLiteral,
                pos |-> ErrorPosition(p)]
          ELSE LET code == BitsValue(Slice(b, p, p + LiteralBits), LiteralBits)
               IN  IF IsPrintable(code)
                   THEN DecodeFrom(b, ob, lb, p + LiteralBits, Append(out, code),
                                   TrimLiteralWindow(Append(buf, code), ob))
                   ELSE DecodeFrom(b, ob, lb, p + LiteralBits, out, buf)
      ELSE IF f = "1" THEN
          IF p + ob + lb > Len(b)
          THEN [out |-> ErrorOutput(out), err |-> ErrIncompleteBackRef,
                pos |-> ErrorPosition(p)]
          ELSE LET off == BitsValue(Slice(b, p, p + ob), ob)
                   len == BitsValue(Slice(b, p + ob, p + ob + lb), lb)
                   q == AfterFields(p, ob, lb)
               IN  IF InvalidReference(off, len, buf)
                   THEN DecodeFrom(b, ob, lb, q, out, buf)
                   ELSE LET r == CopyLoop(out, buf, Len(buf) - off, len, 0)
                        IN  DecodeFrom(b, ob, lb, q, r[1],
                                       TrimBackRefWindow(r[2], ob))
      ELSE DecodeFrom(b, ob, lb, p, out, buf)

decodeLZ77(b, ob, lb) == DecodeFrom(b, ob, lb, 0, <<>>, <<>>)

\* Cross-check of the model: the actions and the function return the same.
ActionsAgreeWithFunction ==
    pc = "done" =>
        decodeLZ77(bitStream, offsetBits, lengthBits)
            = [out |-> retOut, err |-> err, pos |-> errPos]

-----------------------------------------------------------------------------
(* Statements about decodeLZ77 *)

Window == Shl1(offsetBits)

Min(a, b) == IF a <= b THEN a ELSE b

LastN(s, n) == SubSeq(s, Len(s) - n + 1, Len(s))

NamedErrors == {ErrUnexpectedEnd, ErrIncompleteLiteral, ErrIncompleteBackRef}

\* C1 as stated: a bitstream of zero bits returns the error
\* UnexpectedEndOfStream carrying position 0, together with an empty output.
C1_EmptyStreamFails ==
    (pc = "done" /\ Len(bitStream) = 0)
        => (err = ErrUnexpectedEnd /\ errPos = 0 /\ retOut = <<>>)

\* C1 amended: a bitstream of zero bits returns an empty output and no error;
\* the scan loop is never entered, so the end-of-stream check is not reached.
C1_EmptyStreamReturnsClean ==
    (pc = "done" /\ Len(bitStream) = 0)
        => (err = ErrNil /\ retOut = <<>> /\ tokKind = "none" /\ position = 0)

C1_Witness == pc = "done" /\ Len(bitStream) = 0

\* C2 as stated: in every state of a call, the states inside a back-reference
\* copy and before the trim included, the search buffer holds at most
\* 2^offsetBits bytes.
C2_WindowBoundEverywhere == Len(searchBuffer) <= Window

\* C2 amended: the search buffer holds at most 2^offsetBits bytes at the loop
\* head, after the flag read and on return; between an append and the trim
\* that follows it exceeds 2^offsetBits by at most the bytes the token has
\* appended: 1 on the literal path, i <= length on the back-reference path.
C2_WindowBoundAfterTrim ==
    /\ pc \in {"loop", "flag", "done"} => Len(searchBuffer) <= Window
    /\ pc = "trimLiteral" => Len(searchBuffer) <= Window + 1
    /\ pc \in {"copy", "trimBackRef"} =>
          (i <= length /\ Len(searchBuffer) <= Window + i)

C2_Witness ==
    /\ pc = "copy"
    /\ i < length
    /\ Len(searchBuffer) > Window

\* The all-literal encoding of a string: flag "0" and the 8-bit code,
\* most significant bit first, per character.
RECURSIVE EncodeLiterals(_)
EncodeLiterals(str) ==
    IF str = <<>> THEN <<>>
    ELSE (<<"0">> \o ByteBits(Head(str))) \o EncodeLiterals(Tail(str))

PrintableStrings ==
    UNION {[1..n -> LiteralCodes \cap (32..126)] : n \in 0..MaxTokens}

\* C3: decoding the all-literal encoding of a printable ASCII string, with
\* any offsetBits and lengthBits, returns the string and no error.
C3_LiteralRoundTrip ==
    pc = "done" =>
        \A str \in PrintableStrings :
            (Len(bitStream) = 9 * Len(str) /\ bitStream = EncodeLiterals(str))
                => (retOut = str /\ err = ErrNil)

C3_Witness ==
    /\ pc = "done"
    /\ offsetBits = 0
    /\ bitStream = EncodeLiterals(<<65, 126>>)
    /\ retOut = <<65, 126>>

\* C4: when a call returns an error carrying position p together with output
\* out, the call on the first p bits of the bitstream returns the same output.
C4_PrefixRerun ==
    (pc = "done" /\ err # ErrNil) =>
        /\ errPos <= Len(bitStream)
        /\ decodeLZ77(Slice(bitStream, 0, errPos), offsetBits, lengthBits).out
               = retOut

C4_Witness ==
    /\ pc = "done"
    /\ err = ErrIncompleteLiteral
    /\ retOut # <<>>
    /\ errPos < Len(bitStream)

\* C5: a complete back-reference token whose offset exceeds the search-buffer
\* length, or whose length is 0, or whose offset is 0, leaves output and
\* search buffer unchanged, raises no error and advances the cursor by
\* 1 + offsetBits + lengthBits.
C5_InvalidBackRefSkipped ==
    (tokKind = "backref" /\ (offset > Len(tokBuf) \/ length = 0 \/ offset = 0)) =>
        /\ output = tokOut
        /\ searchBuffer = tokBuf
        /\ err = ErrNil
        /\ position = tokPos + 1 + offsetBits + lengthBits

C5_WitnessOffsetZero ==
    /\ pc = "loop"
    /\ tokKind = "backref"
    /\ offset = 0
    /\ length >= 1
    /\ tokBuf # <<>>
    /\ output = tokOut

\* C6: a complete literal token whose value is outside [32,126] leaves output
\* and search buffer unchanged and raises no error, the cursor advancing by 9;
\* one whose value is inside [32,126] appends that one byte to both.
C6_PrintableFilter ==
    tokKind = "literal" =>
        /\ position = tokPos + 9
        /\ err = ErrNil
        /\ \A c \in LiteralCodes :
              Slice(bitStream, tokPos + 1, tokPos + 9) = ByteBits(c) => charCode = c
        /\ IF charCode < 32 \/ charCode > 126
           THEN output = tokOut /\ searchBuffer = tokBuf
           ELSE /\ output = Append(tokOut, charCode)
                /\ pc = "trimLiteral" => searchBuffer = Append(tokBuf, charCode)
                /\ pc # "trimLiteral" =>
                      searchBuffer \in {Append(tokBuf, charCode),
                                        Tail(Append(tokBuf, charCode))}

C6_WitnessDropped ==
    /\ pc = "loop"
    /\ tokKind = "literal"
    /\ charCode = 127
    /\ tokOut # <<>>

\* C7: a flag "0" followed by fewer than 8 bits, or a flag "1" followed by
\* fewer than offsetBits + lengthBits bits, ends the call at once with
\* IncompleteLiteral, respectively IncompleteBackReference, carrying the
\* cursor, and returns exactly the output of the tokens before that flag;
\* nothing runs after a return.
C7_IncompleteTokenStops ==
    [][ /\ pc # "done"
        /\ (pc = "flag" /\ flag = "0" /\ Len(bitStream) - position < 8) =>
              /\ pc' = "done"
              /\ err' = ErrIncompleteLiteral
              /\ errPos' = position
              /\ retOut' = tokOut
              /\ output' = tokOut
        /\ (pc = "flag" /\ flag = "1"
                /\ Len(bitStream) - position < offsetBits + lengthBits) =>
              /\ pc' = "done"
              /\ err' = ErrIncompleteBackRef
              /\ errPos' = position
              /\ retOut' = tokOut
              /\ output' = tokOut
      ]_vars

C7_Witness ==
    /\ pc = "done"
    /\ err = ErrIncompleteBackRef
    /\ retOut # <<>>
    /\ errPos < Len(bitStream)

\* C8: at every token boundary the search buffer equals the last
\* min(len(output), 2^offsetBits) bytes of the output.
C8_BufferMirrorsOutput ==
    pc = "loop" =>
        searchBuffer = LastN(output, Min(Len(output), Window))

C8_Witness ==
    /\ pc = "loop"
    /\ tokKind = "literal"
    /\ Len(output) > Window
    /\ Len(tokBuf) = Window

\* C9: a back-reference with 1 <= offset <= search-buffer length and
\* length >= 1 appends exactly length bytes (the early stop never fires), and
\* with n the output length before the token, output[n + i] = output[n + i - offset]
\* for 0 <= i < length.
C9_CopyAppendsLength ==
    (tokKind = "backref" /\ offset >= 1 /\ offset <= Len(tokBuf) /\ length >= 1) =>
        LET n == Len(tokOut)
            m == Len(output) - n
        IN  /\ SubSeq(output, 1, n) = tokOut
            /\ pc = "copy" =>
                  /\ m = i
                  /\ i <= length
                  /\ i < length => startPos + i < Len(searchBuffer)
            /\ pc # "copy" => m = length
            /\ \A k \in 1..m : output[n + k] = output[n + k - offset]

C9_Witness ==
    /\ pc = "trimBackRef"
    /\ tokKind = "backref"
    /\ offset >= 1
    /\ length > offset
    /\ Len(output) = Len(tokOut) + length

\* A measure of the work left: lexicographic in the bits left and the
\* control point (with the copies left inside a back-reference).
WorkLeft ==
    (Len(bitStream) - position) * (Shl1(lengthBits) + 5)
    + (CASE pc = "done" -> 0
         [] pc = "loop" -> 1
         [] pc = "trimLiteral" -> 2
         [] pc = "trimBackRef" -> 2
         [] pc = "copy" -> 3 + (length - i)
         [] pc = "flag" -> Shl1(lengthBits) + 4)

C10_CursorInvariant ==
    /\ position <= Len(bitStream)
    /\ pc = "flag" => position = tokPos + 1
    /\ tokKind = "other" => position = tokPos + 1
    /\ tokKind = "literal" => position = tokPos + 9
    /\ tokKind = "backref" => position = tokPos + 1 + offsetBits + lengthBits
    /\ pc = "done" =>
          \/ err = ErrNil /\ position = Len(bitStream)
          \/ err \in NamedErrors /\ errPos = position
    /\ pc # "done" => ENABLED Next
    /\ WorkLeft >= 0

\* C10: every iteration strictly increases the cursor (by 1, 9 or
\* 1 + offsetBits + lengthBits), the cursor never exceeds the bitstream
\* length, and every call ends: with no error and the cursor at the end, or
\* with one of the named errors.  Every step decreases WorkLeft, a natural
\* number, and a step is possible until the call has returned.
C10_Terminates ==
    /\ []C10_CursorInvariant
    /\ [][WorkLeft' < WorkLeft]_vars

C10_Witness ==
    /\ pc = "done"
    /\ err = ErrNil
    /\ position = Len(bitStream)
    /\ tokKind = "other"
    /\ output # <<>>

====
